---- MODULE Spec2Model ----
(***************************************************************************)
(* Baby-step giant-step discrete logarithm solvers of src/lib.rs:           *)
(* BSGS::run (sequential) and Parallel::run (baby steps spread over rayon   *)
(* workers that share one Mutex<HashMap>).                                  *)
(*                                                                          *)
(* One behaviour is one differential run: the inputs (g, h, p) and the      *)
(* number of CPUs are chosen in Init, BSGS::run is executed step by step,   *)
(* and then Parallel::run is executed on the same inputs with its workers   *)
(* interleaved in every possible way.  The two functions share no state, so *)
(* running one after the other loses no behaviour of either.                *)
(***************************************************************************)
EXTENDS Integers, FiniteSets, Sequences, TLC

\* Largest modulus p drawn in Init.
MaxP == 9
\* Largest modulus p of the runs checked for liveness.
MaxPFair == 7
\* Largest value num_cpus::get() is taken to return.
MaxThreads == 3

VARIABLES
    g, h, p,        \* the arguments of both run functions
    num_cpus,       \* what num_cpus::get() returns on this machine
    bsgs,           \* BSGS::run: [pc, m, lookup_table, j, c, i, ret]
    ppc,            \* Parallel::run: position of the calling thread
    m,              \* Parallel::run: step bound
    num_threads,    \* Parallel::run: num_threads
    chunk_size,     \* Parallel::run: chunk_size
    lookup_table,   \* Parallel::run: the HashMap inside the Mutex
    holders,        \* Parallel::run: the threads holding a MutexGuard
    wpc,            \* worker closure: position, per thread_num
    start,          \* worker closure: start (kept as `clone`), per thread_num
    end,            \* worker closure: end, per thread_num
    j,              \* worker closure: j, per thread_num
    key,            \* worker closure: key, per thread_num
    c,              \* Parallel::run: giant step constant
    i,              \* Parallel::run: giant step index
    ret,            \* Parallel::run: returned Option<BigUint>
    ins,            \* history: number of insert calls made for each j
    acq,            \* history: lock() calls that returned, per thread_num
    rel,            \* history: guards dropped, per thread_num
    lookups         \* history: number of giant-step get calls of Parallel::run

vars == << g, h, p, num_cpus, bsgs, ppc, m, num_threads, chunk_size,
           lookup_table, holders, wpc, start, end, j, key, c, i, ret,
           ins, acq, rel, lookups >>

parVars == << ppc, m, num_threads, chunk_size, lookup_table, holders, wpc,
              start, end, j, key, c, i, ret, ins, acq, rel, lookups >>

workerVars == << wpc, start, end, j, key >>

-----------------------------------------------------------------------------
(* BigUint arithmetic *)

\* BigUint::modpow(exp, modulus): base^exp reduced modulo modulus; an exponent
\* of zero gives 1 reduced modulo modulus (0 when modulus = 1).
RECURSIVE ModPow(_, _, _)
ModPow(base, exp, modulus) ==
    IF exp = 0 THEN 1 % modulus
    ELSE (base * ModPow(base, exp - 1, modulus)) % modulus

\* mutant: the square root rounded up (as a rounded floating-point root may be)
SqrtCeil(n) == CHOOSE r \in 0..n : r * r >= n /\ (r = 0 \/ (r - 1) * (r - 1) < n)

\* BigUint::sqrt: floor of the square root.
Sqrt(n) == CHOOSE r \in 0..n : r * r <= n /\ (r + 1) * (r + 1) > n

\* BigUint subtraction a - b panics when b > a.
SubPanics(a, b) == b > a

\* Option<BigUint>
None == [tag |-> "None", val |-> 0]
Some(x) == [tag |-> "Some", val |-> x]
Pending == [tag |-> "Pending", val |-> 0]

\* HashMap::new()
EmptyMap == [k \in {} |-> 0]

\* mutant: an existing key keeps its value (insert only if absent)
InsertKeepFirst(t, k, v) ==
    [x \in (DOMAIN t) \cup {k} |-> IF x \in DOMAIN t THEN t[x] ELSE v]

\* HashMap::insert(k, v): the value of an existing key is replaced.
Insert(t, k, v) == [x \in (DOMAIN t) \cup {k} |-> IF x = k THEN v ELSE t[x]]

\* mutant: an entry whose value is 0 is taken for a miss
ContainsKeyTruthy(t, k) == k \in DOMAIN t /\ t[k] # 0

\* HashMap::get(k) is Some
ContainsKey(t, k) == k \in DOMAIN t

\* mutant: the step bound without the + 1
StepBoundFloor(pp) == Sqrt(pp - 1)

\* m = (p - 1).sqrt() + 1
StepBound(pp) == Sqrt(pp - 1) + 1

\* mutant: the key of the next exponent is stored under j
BabyKeyAhead(gg, jj, pp) == ModPow(gg, jj + 1, pp)

\* key = g.modpow(&j, &p)
BabyKey(gg, jj, pp) == ModPow(gg, jj, pp)

\* mutant: g^m itself instead of its inverse
GiantCNotInverted(gg, mm, pp) == ModPow(gg, mm, pp)

\* mutant: the exponent p - 1 instead of p - 2
GiantCFermatOff(gg, mm, pp) == ModPow(gg, mm * (pp - 1), pp)

\* c = g.modpow(&(m * (p - 2)), &p)
GiantC(gg, mm, pp) == ModPow(gg, mm * (pp - 2), pp)

\* temp = (h * c.modpow(&i, &p)) % p
GiantTemp(hh, cc, ii, pp) == (hh * ModPow(cc, ii, pp)) % pp

\* mutant: the giant-step index counted from one
FoundOneBased(ii, mm, jj) == Some((ii + 1) * mm + jj)

\* mutant: i and j swapped in the reconstruction
FoundSwapped(ii, mm, jj) == Some(jj * mm + ii)

\* Some(i * m + j)
Found(ii, mm, jj) == Some(ii * mm + jj)

-----------------------------------------------------------------------------
(* BSGS::run *)

BsgsInit == [pc |-> "start", m |-> 0, lookup_table |-> EmptyMap, j |-> 0,
             c |-> 0, i |-> 0, ret |-> Pending]

\* let m = (p - 1).sqrt() + 1; let mut lookup_table = HashMap::new(); j = 0
BsgsStart ==
    /\ bsgs.pc = "start"
    /\ bsgs' = IF SubPanics(p, 1)
               THEN [bsgs EXCEPT !.pc = "panicked"]
               ELSE [bsgs EXCEPT !.pc = "baby", !.m = StepBound(p),
                                 !.lookup_table = EmptyMap, !.j = 0]
    /\ UNCHANGED << g, h, p, num_cpus, parVars >>

\* one iteration of: while j < m { insert(g.modpow(j, p), j); j += 1 }
BsgsBabyStep ==
    /\ bsgs.pc = "baby"
    /\ bsgs.j < bsgs.m
    /\ bsgs' = [bsgs EXCEPT
                  !.lookup_table = Insert(@, BabyKey(g, bsgs.j, p), bsgs.j),
                  !.j = @ + 1]
    /\ UNCHANGED << g, h, p, num_cpus, parVars >>

\* loop exit, then let c = g.modpow(&(m * (p - 2)), &p); i = 0
BsgsPrecompute ==
    /\ bsgs.pc = "baby"
    /\ ~(bsgs.j < bsgs.m)
    /\ ~SubPanics(p, 2)
    /\ bsgs' = [bsgs EXCEPT !.pc = "giant", !.c = GiantC(g, bsgs.m, p), !.i = 0]
    /\ UNCHANGED << g, h, p, num_cpus, parVars >>

\* p - BigUint::from(2u32) with p < 2: the subtraction panics
BsgsPrecomputePanic ==
    /\ bsgs.pc = "baby"
    /\ ~(bsgs.j < bsgs.m)
    /\ SubPanics(p, 2)
    /\ bsgs' = [bsgs EXCEPT !.pc = "panicked"]
    /\ UNCHANGED << g, h, p, num_cpus, parVars >>

\* one iteration of the giant-step loop that misses: i += 1
BsgsGiantMiss ==
    /\ bsgs.pc = "giant"
    /\ bsgs.i < bsgs.m
    /\ ~ContainsKey(bsgs.lookup_table, GiantTemp(h, bsgs.c, bsgs.i, p))
    /\ bsgs' = [bsgs EXCEPT !.i = @ + 1]
    /\ UNCHANGED << g, h, p, num_cpus, parVars >>

\* one iteration of the giant-step loop that hits: return Some(i * m + j)
BsgsGiantHit ==
    /\ bsgs.pc = "giant"
    /\ bsgs.i < bsgs.m
    /\ ContainsKey(bsgs.lookup_table, GiantTemp(h, bsgs.c, bsgs.i, p))
    /\ bsgs' = [bsgs EXCEPT
                  !.pc = "returned",
                  !.ret = Found(bsgs.i, bsgs.m,
                                bsgs.lookup_table[GiantTemp(h, bsgs.c, bsgs.i, p)])]
    /\ UNCHANGED << g, h, p, num_cpus, parVars >>

\* loop exit: None
BsgsGiantExhausted ==
    /\ bsgs.pc = "giant"
    /\ ~(bsgs.i < bsgs.m)
    /\ bsgs' = [bsgs EXCEPT !.pc = "returned", !.ret = None]
    /\ UNCHANGED << g, h, p, num_cpus, parVars >>

BsgsOver == bsgs.pc \in {"returned", "panicked"}

-----------------------------------------------------------------------------
(* Parallel::run *)

Threads == 0 .. (MaxThreads - 1)

\* 0..num_threads
Workers == 0 .. (num_threads - 1)

\* mutant: lock() that never waits
LockNeverWaits(hs) == TRUE

\* lookup_table.lock() returns only when no guard is alive
LockFree(hs) == hs = {}

\* mutant: the guard is leaked instead of dropped
UnlockLeaks(hs, t) == hs

\* drop of the MutexGuard held by t
Unlock(hs, t) == hs \ {t}

\* mutant: the caller goes on as soon as the first closure call has returned
JoinedFirst(pcs, n) == pcs[0] = "done"

\* into_par_iter().for_each(..) returns when every closure call has returned
Joined(pcs, n) == \A t \in 0 .. (n - 1) : pcs[t] = "done"

\* mutant: chunks counted from one
ChunkStartOneBased(thread_num, cs) == (thread_num + 1) * cs

\* let start = thread_num * &chunk_size
ChunkStart(thread_num, cs) == thread_num * cs

\* mutant: the last chunk does not absorb the remainder
ChunkEndNoRemainder(thread_num, n, cs, mm) == ChunkStart(thread_num, cs) + cs

\* let end = if thread_num == num_threads - 1 { m } else { start + chunk_size }
ChunkEnd(thread_num, n, cs, mm) ==
    IF thread_num = n - 1 THEN mm ELSE ChunkStart(thread_num, cs) + cs

\* let m = ..; let num_threads = num_cpus::get(); let chunk_size = m / num_threads;
\* let lookup_table = Arc::new(Mutex::new(HashMap::new()))
ParStart ==
    /\ BsgsOver
    /\ ppc = "start"
    /\ IF SubPanics(p, 1)
       THEN /\ ppc' = "panicked"
            /\ UNCHANGED << m, num_threads, chunk_size, lookup_table >>
       ELSE /\ ppc' = "fork"
            /\ m' = StepBound(p)
            /\ num_threads' = num_cpus
            /\ chunk_size' = StepBound(p) \div num_cpus
            /\ lookup_table' = EmptyMap
    /\ UNCHANGED << g, h, p, num_cpus, bsgs, holders, workerVars, c, i, ret,
                    ins, acq, rel, lookups >>

\* (0..num_threads).into_par_iter().for_each(|thread_num| ..): one closure call
\* per thread_num is handed to the pool; the caller waits for all of them
ParFork ==
    /\ ppc = "fork"
    /\ ppc' = "join"
    /\ wpc' = [t \in Threads |-> IF t \in Workers THEN "spawned" ELSE wpc[t]]
    /\ UNCHANGED << g, h, p, num_cpus, bsgs, m, num_threads, chunk_size,
                    lookup_table, holders, start, end, j, key, c, i, ret,
                    ins, acq, rel, lookups >>

\* closure entry: start, clone, end, j
WorkerBegin(t) ==
    /\ wpc[t] = "spawned"
    /\ start' = [start EXCEPT ![t] = ChunkStart(t, chunk_size)]
    /\ end' = [end EXCEPT ![t] = ChunkEnd(t, num_threads, chunk_size, m)]
    /\ j' = [j EXCEPT ![t] = ChunkStart(t, chunk_size)]
    /\ wpc' = [wpc EXCEPT ![t] = "loop"]
    /\ UNCHANGED << g, h, p, num_cpus, bsgs, ppc, m, num_threads, chunk_size,
                    lookup_table, holders, key, c, i, ret, ins, acq, rel, lookups >>

\* while j < end { let key = g.modpow(&j, &p);   (no lock held)
WorkerKey(t) ==
    /\ wpc[t] = "loop"
    /\ j[t] < end[t]
    /\ key' = [key EXCEPT ![t] = BabyKey(g, j[t], p)]
    /\ wpc' = [wpc EXCEPT ![t] = "lock"]
    /\ UNCHANGED << g, h, p, num_cpus, bsgs, ppc, m, num_threads, chunk_size,
                    lookup_table, holders, start, end, j, c, i, ret,
                    ins, acq, rel, lookups >>

\* let mut locked_table = lookup_table.lock().unwrap();
WorkerLock(t) ==
    /\ wpc[t] = "lock"
    /\ LockFree(holders)
    /\ holders' = holders \cup {t}
    /\ acq' = [acq EXCEPT ![t] = @ + 1]
    /\ wpc' = [wpc EXCEPT ![t] = "insert"]
    /\ UNCHANGED << g, h, p, num_cpus, bsgs, ppc, m, num_threads, chunk_size,
                    lookup_table, start, end, j, key, c, i, ret, ins, rel, lookups >>

\* locked_table.insert(key.clone(), j.clone());
WorkerInsert(t) ==
    /\ wpc[t] = "insert"
    /\ lookup_table' = Insert(lookup_table, key[t], j[t])
    /\ ins' = [ins EXCEPT ![j[t]] = @ + 1]
    /\ wpc' = [wpc EXCEPT ![t] = "next"]
    /\ UNCHANGED << g, h, p, num_cpus, bsgs, ppc, m, num_threads, chunk_size,
                    holders, start, end, j, key, c, i, ret, acq, rel, lookups >>

\* j = jbis + 1; }   the guard locked_table is dropped at the end of the body
WorkerNext(t) ==
    /\ wpc[t] = "next"
    /\ j' = [j EXCEPT ![t] = @ + 1]
    /\ holders' = Unlock(holders, t)
    /\ rel' = [rel EXCEPT ![t] = @ + 1]
    /\ wpc' = [wpc EXCEPT ![t] = "loop"]
    /\ UNCHANGED << g, h, p, num_cpus, bsgs, ppc, m, num_threads, chunk_size,
                    lookup_table, start, end, key, c, i, ret, ins, acq, lookups >>

\* while j < end fails: the closure call returns
WorkerExit(t) ==
    /\ wpc[t] = "loop"
    /\ ~(j[t] < end[t])
    /\ wpc' = [wpc EXCEPT ![t] = "done"]
    /\ UNCHANGED << g, h, p, num_cpus, bsgs, ppc, m, num_threads, chunk_size,
                    lookup_table, holders, start, end, j, key, c, i, ret,
                    ins, acq, rel, lookups >>

\* for_each returns, then let c = g.modpow(&(m * (p - 2)), &p); i = 0
ParPrecompute ==
    /\ ppc = "join"
    /\ Joined(wpc, num_threads)
    /\ ~SubPanics(p, 2)
    /\ ppc' = "giant"
    /\ c' = GiantC(g, m, p)
    /\ i' = 0
    /\ UNCHANGED << g, h, p, num_cpus, bsgs, m, num_threads, chunk_size,
                    lookup_table, holders, workerVars, ret, ins, acq, rel, lookups >>

\* for_each returns, then p - BigUint::from(2u32) with p < 2 panics
ParPrecomputePanic ==
    /\ ppc = "join"
    /\ Joined(wpc, num_threads)
    /\ SubPanics(p, 2)
    /\ ppc' = "panicked"
    /\ UNCHANGED << g, h, p, num_cpus, bsgs, m, num_threads, chunk_size,
                    lookup_table, holders, workerVars, c, i, ret,
                    ins, acq, rel, lookups >>

\* giant-step iteration: lock(), get(&temp) is None, i = i + 1, guard dropped
ParGiantMiss ==
    /\ ppc = "giant"
    /\ i < m
    /\ LockFree(holders)
    /\ ~ContainsKey(lookup_table, GiantTemp(h, c, i, p))
    /\ i' = i + 1
    /\ lookups' = lookups + 1
    /\ UNCHANGED << g, h, p, num_cpus, bsgs, ppc, m, num_threads, chunk_size,
                    lookup_table, holders, workerVars, c, ret, ins, acq, rel >>

\* giant-step iteration: lock(), get(&temp) is Some(j), return Some(i * m + j)
ParGiantHit ==
    /\ ppc = "giant"
    /\ i < m
    /\ LockFree(holders)
    /\ ContainsKey(lookup_table, GiantTemp(h, c, i, p))
    /\ ret' = Found(i, m, lookup_table[GiantTemp(h, c, i, p)])
    /\ ppc' = "returned"
    /\ lookups' = lookups + 1
    /\ UNCHANGED << g, h, p, num_cpus, bsgs, m, num_threads, chunk_size,
                    lookup_table, holders, workerVars, c, i, ins, acq, rel >>

\* loop exit: None
ParGiantExhausted ==
    /\ ppc = "giant"
    /\ ~(i < m)
    /\ ret' = None
    /\ ppc' = "returned"
    /\ UNCHANGED << g, h, p, num_cpus, bsgs, m, num_threads, chunk_size,
                    lookup_table, holders, workerVars, c, i, ins, acq, rel, lookups >>

-----------------------------------------------------------------------------

Init ==
    /\ p \in 1 .. MaxP
    /\ g \in 0 .. (p - 1)
    /\ h \in 0 .. (p - 1)
    /\ num_cpus \in 1 .. MaxThreads
    /\ bsgs = BsgsInit
    /\ ppc = "start"
    /\ m = 0
    /\ num_threads = 0
    /\ chunk_size = 0
    /\ lookup_table = EmptyMap
    /\ holders = {}
    /\ wpc = [t \in Threads |-> "idle"]
    /\ start = [t \in Threads |-> 0]
    /\ end = [t \in Threads |-> 0]
    /\ j = [t \in Threads |-> 0]
    /\ key = [t \in Threads |-> 0]
    /\ c = 0
    /\ i = 0
    /\ ret = Pending
    /\ ins = [x \in 0 .. StepBound(MaxP) |-> 0]
    /\ acq = [t \in Threads |-> 0]
    /\ rel = [t \in Threads |-> 0]
    /\ lookups = 0

Next ==
    \/ BsgsStart
    \/ BsgsBabyStep
    \/ BsgsPrecompute
    \/ BsgsPrecomputePanic
    \/ BsgsGiantMiss
    \/ BsgsGiantHit
    \/ BsgsGiantExhausted
    \/ ParStart
    \/ ParFork
    \/ \E t \in Threads : WorkerBegin(t)
    \/ \E t \in Threads : WorkerKey(t)
    \/ \E t \in Threads : WorkerLock(t)
    \/ \E t \in Threads : WorkerInsert(t)
    \/ \E t \in Threads : WorkerNext(t)
    \/ \E t \in Threads : WorkerExit(t)
    \/ ParPrecompute
    \/ ParPrecomputePanic
    \/ ParGiantMiss
    \/ ParGiantHit
    \/ ParGiantExhausted

Spec == Init /\ [][Next]_vars

\* The steps of the thread that calls BSGS::run and then Parallel::run.
CallerStep ==
    \/ BsgsStart \/ BsgsBabyStep \/ BsgsPrecompute \/ BsgsPrecomputePanic
    \/ BsgsGiantMiss \/ BsgsGiantHit \/ BsgsGiantExhausted
    \/ ParStart \/ ParFork \/ ParPrecompute \/ ParPrecomputePanic
    \/ ParGiantMiss \/ ParGiantHit \/ ParGiantExhausted

\* The steps of the closure call for thread_num = t.
WorkerStep(t) ==
    \/ WorkerBegin(t) \/ WorkerKey(t) \/ WorkerLock(t)
    \/ WorkerInsert(t) \/ WorkerNext(t) \/ WorkerExit(t)

\* Every thread that can take a step is eventually scheduled: the caller is
\* an OS thread, and rayon runs every closure call of for_each on some pool
\* thread.  Liveness is checked for the moduli up to MaxPFair.
FairInit == Init /\ p <= MaxPFair

FairSpec ==
    /\ FairInit
    /\ [][Next]_vars
    /\ WF_vars(CallerStep)
    /\ \A t \in Threads : WF_vars(WorkerStep(t))

-----------------------------------------------------------------------------
(* Properties *)

IsPrime(n) == n >= 2 /\ \A d \in 2 .. (n - 1) : n % d # 0

\* Some exponent x >= 0 solves gg^x mod pp = hh.  The powers of gg modulo pp
\* take at most pp values, so every value taken is taken by some x < pp.
Solvable(gg, hh, pp) == \E x \in 0 .. pp : ModPow(gg, x, pp) = hh

BsgsReturned == bsgs.pc = "returned"
ParReturned == ppc = "returned"

\* C1: for a prime p and 0 <= g, h < p with a solvable instance, a value
\* Some(x) returned by BSGS::run or by Parallel::run (whatever the workers'
\* interleaving) satisfies g^x mod p = h.
C1_RoundTrip ==
    (IsPrime(p) /\ Solvable(g, h, p)) =>
        /\ (BsgsReturned /\ bsgs.ret.tag = "Some") => ModPow(g, bsgs.ret.val, p) = h
        /\ (ParReturned /\ ret.tag = "Some") => ModPow(g, ret.val, p) = h

\* Both solvers returned an exponent found at a giant step i >= 1, the
\* parallel one with several workers.
C1_Witness ==
    /\ IsPrime(p) /\ Solvable(g, h, p)
    /\ BsgsReturned /\ bsgs.ret.tag = "Some" /\ bsgs.i >= 1
    /\ ParReturned /\ ret.tag = "Some" /\ i >= 1
    /\ num_threads >= 2

\* C2: for a prime p, once both solvers have returned, Parallel::run has
\* returned exactly what BSGS::run returned (both None, or the same exponent).
C2_SeqParEqual ==
    (IsPrime(p) /\ BsgsReturned /\ ParReturned) => ret = bsgs.ret

\* C3: for a prime p and an instance that no exponent solves, each solver
\* returns None, and does so after scanning all of i in [0, m).
C3_NegativeCase ==
    (IsPrime(p) /\ ~Solvable(g, h, p)) =>
        /\ BsgsReturned => (bsgs.ret = None /\ bsgs.i = bsgs.m)
        /\ ParReturned => (ret = None /\ i = m)

\* C4: for a prime p, if some exponent in [0, p) solves the instance then
\* neither solver returns None.
C4_Complete ==
    (IsPrime(p) /\ \E x \in 0 .. (p - 1) : ModPow(g, x, p) = h) =>
        /\ BsgsReturned => bsgs.ret.tag = "Some"
        /\ ParReturned => ret.tag = "Some"

\* Both solvers returned the largest exponent of the group, p - 2, which
\* needs a giant step i >= 1 and the baby step j = m - 1 or close to it.
C4_Witness ==
    /\ IsPrime(p) /\ p >= 5
    /\ BsgsReturned /\ bsgs.ret = Some(p - 2)
    /\ ParReturned /\ ret = Some(p - 2)
    /\ num_threads >= 2

\* C5: for p >= 1 and 0 <= g, h < p neither solver ends in a panic.
C5_NoPanic ==
    (p >= 1 /\ g < p /\ h < p) => (bsgs.pc # "panicked" /\ ppc # "panicked")

\* C6: for p = 2, g = h = 1 neither solver panics, each probes fewer than
\* m = 2 giant steps beyond the first, and each returns Some(x) with x < m
\* and 1^x mod 2 = 1.
C6_BoundaryTwo ==
    (p = 2 /\ g = 1 /\ h = 1) =>
        /\ bsgs.pc # "panicked" /\ ppc # "panicked"
        /\ bsgs.pc \in {"giant", "returned"} => (bsgs.m = 2 /\ bsgs.i < bsgs.m)
        /\ ppc \in {"giant", "returned"} => (m = 2 /\ i < m /\ lookups <= m)
        /\ BsgsReturned =>
              /\ bsgs.ret.tag = "Some"
              /\ bsgs.ret.val < bsgs.m
              /\ ModPow(1, bsgs.ret.val, 2) = 1
        /\ ParReturned =>
              /\ ret.tag = "Some"
              /\ ret.val < m
              /\ ModPow(1, ret.val, 2) = 1

\* Both solvers have returned on p = 2, g = h = 1, the parallel one with two
\* workers that each inserted one j.
C6_Witness ==
    /\ p = 2 /\ g = 1 /\ h = 1
    /\ BsgsReturned /\ ParReturned
    /\ num_threads = 2 /\ ins[0] = 1 /\ ins[1] = 1

\* C7: in Parallel::run, once a giant-step lookup has been made every worker
\* has returned and every j in [0, m) has been inserted; a worker that has
\* returned inserts nothing more, so no insertion follows a lookup.
C7_Barrier ==
    /\ ppc \in {"giant", "returned"} =>
          /\ \A t \in Workers : wpc[t] = "done"
          /\ \A x \in 0 .. (m - 1) : ins[x] >= 1
          /\ holders = {}
    /\ lookups > 0 => ppc \in {"giant", "returned"}

\* A lookup was made after several workers filled a table of several keys.
C7_Witness ==
    /\ lookups > 0
    /\ num_threads >= 2
    /\ \A t \in Workers : wpc[t] = "done" /\ end[t] > start[t]
    /\ Cardinality(DOMAIN lookup_table) >= 2

\* The chunk [start, end) a worker computed on entry.
Chunk(t) == { x \in 0 .. (m - 1) : start[t] <= x /\ x < end[t] }

Begun(t) == t \in Workers /\ wpc[t] \notin {"idle", "spawned"}

\* C8: the chunks the workers compute are pairwise disjoint, lie in [0, m),
\* every chunk but the last has m div num_threads elements, and together they
\* cover [0, m) (also when num_threads > m); a worker inserts only j of its
\* own chunk, no j is inserted twice, and after the join every j in [0, m)
\* has been inserted exactly once.
C8_Partition ==
    /\ \A t \in Threads : Begun(t) =>
          /\ 0 <= start[t] /\ start[t] <= end[t] /\ end[t] <= m
          /\ t # num_threads - 1 => Cardinality(Chunk(t)) = m \div num_threads
          /\ wpc[t] \in {"lock", "insert", "next"} => j[t] \in Chunk(t)
    /\ \A t, u \in Threads :
          (Begun(t) /\ Begun(u) /\ t # u) => Chunk(t) \cap Chunk(u) = {}
    /\ (ppc # "start" /\ \A t \in Workers : Begun(t)) =>
          UNION { Chunk(t) : t \in Workers } = 0 .. (m - 1)
    /\ \A x \in DOMAIN ins : ins[x] <= 1
    /\ ppc \in {"giant", "returned"} => \A x \in 0 .. (m - 1) : ins[x] = 1

\* More workers than steps (chunk_size = 0): all workers have returned and
\* the last one inserted every j.
C8_Witness ==
    /\ num_threads > m /\ m >= 2
    /\ chunk_size = 0
    /\ \A t \in Workers : wpc[t] = "done"
    /\ \A x \in 0 .. (m - 1) : ins[x] = 1

\* C9: at most one worker holds the table lock; a worker holds it exactly
\* while it is between lock() and the end of that loop body, so every insert
\* is made under the lock; each worker has acquired the lock once per j it
\* has started to insert and released it once per j it has finished.
C9_Mutex ==
    /\ Cardinality(holders) <= 1
    /\ \A t \in Threads : (t \in holders) <=> (wpc[t] \in {"insert", "next"})
    /\ \A t \in Threads : Begun(t) =>
          /\ rel[t] = j[t] - start[t]
          /\ acq[t] = rel[t] + (IF t \in holders THEN 1 ELSE 0)
          /\ wpc[t] = "done" => acq[t] = end[t] - start[t]

\* A worker is in the middle of its chunk, not holding the lock, while
\* another worker is inserting under it.
C9_Witness ==
    \E t, u \in Workers :
        /\ t # u
        /\ start[t] < j[t] /\ j[t] < end[t] /\ wpc[t] = "lock"
        /\ u \in holders /\ wpc[u] = "insert"

TableOk(table, mm) ==
    \A k \in DOMAIN table :
        /\ 0 <= table[k] /\ table[k] < mm
        /\ ModPow(g, table[k], p) = k

\* C10: in every state every entry (k, j) of either solver's lookup table
\* satisfies 0 <= j < m and g^j mod p = k.
C10_TableInvariant ==
    /\ TableOk(bsgs.lookup_table, bsgs.m)
    /\ TableOk(lookup_table, m)

\* Three workers are still running, the shared table already has two keys,
\* and the sequential table had a key collision.
C10_Witness ==
    /\ ppc = "join"
    /\ num_threads >= 3
    /\ \E t \in Workers : wpc[t] \in {"lock", "insert", "next"}
    /\ Cardinality(DOMAIN lookup_table) >= 2
    /\ Cardinality(DOMAIN bsgs.lookup_table) < bsgs.m

\* The exponents j in [0, mm) whose baby-step key is k.
ExponentsOf(k, mm) == { x \in 0 .. (mm - 1) : ModPow(g, x, p) = k }

Largest(S) == CHOOSE x \in S : \A y \in S : y <= x
Smallest(S) == CHOOSE x \in S : \A y \in S : x <= y

\* A step from table t to table u replaces the value of a key only by a
\* larger one.
OnlyGrows(t, u) ==
    \A k \in (DOMAIN t) \cap (DOMAIN u) : u[k] # t[k] => u[k] > t[k]

\* C11: in either solver, every insertion that replaces the entry of a key
\* writes a j strictly larger than the j it replaces.
C11_MonotoneReplace ==
    [][ /\ OnlyGrows(bsgs.lookup_table, bsgs'.lookup_table)
        /\ OnlyGrows(lookup_table, lookup_table') ]_vars

BsgsBabyDone == bsgs.pc \in {"giant", "returned"}
ParBabyDone == ppc \in {"giant", "returned"}

\* C12 as stated: once the baby-step phase of a solver is over, its table
\* maps every k = g^j mod p, j in [0, m), to the smallest such j.
C12_SmallestExponent ==
    /\ BsgsBabyDone =>
          \A x \in 0 .. (bsgs.m - 1) :
              /\ ModPow(g, x, p) \in DOMAIN bsgs.lookup_table
              /\ bsgs.lookup_table[ModPow(g, x, p)]
                    = Smallest(ExponentsOf(ModPow(g, x, p), bsgs.m))
    /\ ParBabyDone =>
          \A x \in 0 .. (m - 1) :
              /\ ModPow(g, x, p) \in DOMAIN lookup_table
              /\ lookup_table[ModPow(g, x, p)]
                    = Smallest(ExponentsOf(ModPow(g, x, p), m))

\* C12 amended: once the baby-step phase of a solver is over, its table maps
\* every k = g^j mod p, j in [0, m), to an exponent j' in [0, m) with
\* g^j' mod p = k; in BSGS::run j' is the largest such exponent.
C12_SomeExponent ==
    /\ BsgsBabyDone =>
          /\ \A x \in 0 .. (bsgs.m - 1) : ModPow(g, x, p) \in DOMAIN bsgs.lookup_table
          /\ \A k \in DOMAIN bsgs.lookup_table :
                /\ ExponentsOf(k, bsgs.m) # {}
                /\ bsgs.lookup_table[k] = Largest(ExponentsOf(k, bsgs.m))
    /\ ParBabyDone =>
          /\ \A x \in 0 .. (m - 1) : ModPow(g, x, p) \in DOMAIN lookup_table
          /\ \A k \in DOMAIN lookup_table : lookup_table[k] \in ExponentsOf(k, m)

\* Both baby-step phases are over on an input where three exponents share a
\* key; the sequential table holds the largest and the shared table one that
\* is neither the smallest nor the largest.
C12_Witness ==
    /\ BsgsBabyDone /\ ParBabyDone
    /\ \E k \in DOMAIN lookup_table :
          /\ Cardinality(ExponentsOf(k, m)) >= 3
          /\ lookup_table[k] # Smallest(ExponentsOf(k, m))
          /\ lookup_table[k] # Largest(ExponentsOf(k, m))
          /\ bsgs.lookup_table[k] = Largest(ExponentsOf(k, m))

\* The giant-step indices whose probe value is a key of the table.
HitIndices(table, cc, mm) ==
    { x \in 0 .. (mm - 1) : GiantTemp(h, cc, x, p) \in DOMAIN table }

\* C13: in both solvers the probes are made for i = 0, 1, .. in order: every
\* index below the current i was a miss; a returned Some(x) has
\* x = i0 * m + table[temp_i0] for the smallest hit index i0, the scan stopped
\* at i0, and None is returned only when no index hits.
C13_FirstHit ==
    /\ BsgsBabyDone =>
          LET hits == HitIndices(bsgs.lookup_table, bsgs.c, bsgs.m) IN
          /\ \A x \in 0 .. (bsgs.i - 1) : x \notin hits
          /\ (BsgsReturned /\ bsgs.ret.tag = "Some") =>
                /\ hits # {}
                /\ bsgs.i = Smallest(hits)
                /\ bsgs.ret.val = bsgs.i * bsgs.m
                                    + bsgs.lookup_table[GiantTemp(h, bsgs.c, bsgs.i, p)]
          /\ (BsgsReturned /\ bsgs.ret.tag = "None") => hits = {}
    /\ ParBabyDone =>
          LET hits == HitIndices(lookup_table, c, m) IN
          /\ \A x \in 0 .. (i - 1) : x \notin hits
          /\ (ParReturned /\ ret.tag = "Some") =>
                /\ hits # {}
                /\ i = Smallest(hits)
                /\ ret.val = i * m + lookup_table[GiantTemp(h, c, i, p)]
                /\ lookups = i + 1
          /\ (ParReturned /\ ret.tag = "None") =>
                /\ hits = {}
                /\ lookups = m

\* Both solvers returned at a first hit i0 >= 1 although a later index would
\* hit as well.
C13_Witness ==
    /\ BsgsReturned /\ bsgs.ret.tag = "Some" /\ bsgs.i >= 1
    /\ ParReturned /\ ret.tag = "Some" /\ i >= 1
    /\ Cardinality(HitIndices(lookup_table, c, m)) >= 2
    /\ Cardinality(HitIndices(bsgs.lookup_table, bsgs.c, bsgs.m)) >= 2

\* Parallel::run has returned with every worker finished, every j of [0, m)
\* inserted, the lock free and at most m probes made.
ParCompleted ==
    /\ ParReturned
    /\ \A t \in Workers : wpc[t] = "done"
    /\ \A x \in 0 .. (m - 1) : ins[x] = 1
    /\ holders = {}
    /\ lookups <= m

\* C14: under fair scheduling, for p >= 2, Parallel::run always ends up
\* returned with all workers finished and the lock released, after at most m
\* probes; and no state before that return is a deadlock.
C14_Terminates ==
    /\ (p >= 2) ~> ParCompleted
    /\ []((p >= 2 /\ ~ParReturned) => ENABLED Next)

\* Parallel::run completed after two workers contended for the lock and the
\* scan went through all m probes.
C14_Witness ==
    /\ p >= 2
    /\ ParCompleted
    /\ num_threads >= 2
    /\ \A t \in Workers : acq[t] >= 1
    /\ lookups = m

\* mm is floor(sqrt(pp - 1)) + 1 and mm * mm covers the exponents 0 .. pp - 1.
StepBoundOk(mm, pp) ==
    /\ (mm - 1) * (mm - 1) <= pp - 1
    /\ pp - 1 < mm * mm
    /\ \A x \in 0 .. (pp - 1) :
          \E a \in 0 .. (mm - 1) : (x - a * mm) \in 0 .. (mm - 1)

\* C15: for every p >= 1 the m each solver computes satisfies
\* (m - 1)^2 <= p - 1 < m^2, i.e. m = floor(sqrt(p - 1)) + 1, and every
\* x in [0, p - 1] is i * m + j for some 0 <= i, j < m.
C15_StepBound ==
    /\ bsgs.pc # "start" => StepBoundOk(bsgs.m, p)
    /\ ppc # "start" => StepBoundOk(m, p)

\* Both solvers computed m = 3 for p = 5 (p - 1 is a perfect square).
C15_Witness ==
    /\ p = 5
    /\ bsgs.pc # "start" /\ bsgs.m = 3
    /\ ppc # "start" /\ m = 3

\* cc times g^mm is 1 modulo p, and every probe value times g^(i*mm) is h.
InverseOk(cc, mm) ==
    /\ (cc * ModPow(g, mm, p)) % p = 1 % p
    /\ \A x \in 0 .. (mm - 1) :
          (GiantTemp(h, cc, x, p) * ModPow(g, x * mm, p)) % p = h

\* C16: for a prime p and 1 <= g < p the constant c each solver computes
\* satisfies (c * g^m) mod p = 1, hence (h * c^i) mod p multiplied by
\* g^(i*m) gives h back for every i in [0, m).
C16_Inverse ==
    (IsPrime(p) /\ g >= 1) =>
        /\ BsgsBabyDone => InverseOk(bsgs.c, bsgs.m)
        /\ ParBabyDone => InverseOk(c, m)

\* Both solvers computed a c other than 0 and 1 for a prime p >= 5.
C16_Witness ==
    /\ IsPrime(p) /\ p >= 5 /\ g >= 2
    /\ BsgsBabyDone /\ bsgs.c >= 2
    /\ ParBabyDone /\ c >= 2

\* C17: for p >= 2, once both baby-step phases are over the two tables have
\* the same key set, { g^j mod p : 0 <= j < m }, in every interleaving; and
\* once both solvers have returned they agree on Some versus None and on the
\* giant-step index at which the scan ended.
C17_SameKeys ==
    (p >= 2) =>
        /\ ParBabyDone =>
              DOMAIN lookup_table = { ModPow(g, x, p) : x \in 0 .. (m - 1) }
        /\ BsgsBabyDone =>
              DOMAIN bsgs.lookup_table = { ModPow(g, x, p) : x \in 0 .. (bsgs.m - 1) }
        /\ (ParBabyDone /\ BsgsBabyDone) =>
              DOMAIN lookup_table = DOMAIN bsgs.lookup_table
        /\ (ParReturned /\ BsgsReturned) =>
              /\ ret.tag = bsgs.ret.tag
              /\ i = bsgs.i

\* Both solvers returned Some at the same index although the stored j, and
\* so the returned exponents, differ.
C17_Witness ==
    /\ p >= 2
    /\ ParReturned /\ BsgsReturned
    /\ ret.tag = "Some" /\ bsgs.ret.tag = "Some"
    /\ i = bsgs.i
    /\ ret.val # bsgs.ret.val
    /\ lookup_table # bsgs.lookup_table

\* C18: for a prime p and a solvable instance, every Some(x) returned by
\* either solver has 0 <= x < p.
C18_ExponentBound ==
    /\ (BsgsReturned /\ bsgs.ret.tag = "Some" /\ IsPrime(p) /\ Solvable(g, h, p)) =>
          (0 <= bsgs.ret.val /\ bsgs.ret.val < p)
    /\ (ParReturned /\ ret.tag = "Some" /\ IsPrime(p) /\ Solvable(g, h, p)) =>
          (0 <= ret.val /\ ret.val < p)

\* Both solvers returned Some on a solvable prime instance with m * m > p,
\* the sequential one from a key with several exponents.
C18_Witness ==
    /\ IsPrime(p) /\ Solvable(g, h, p)
    /\ m * m > p
    /\ BsgsReturned /\ bsgs.ret.tag = "Some"
    /\ ParReturned /\ ret.tag = "Some"
    /\ Cardinality(DOMAIN bsgs.lookup_table) < bsgs.m
    /\ bsgs.ret.val = m - 1

====
